---- MODULE Spec2Model ----
(***************************************************************************)
(* Model of the ICP_Web3Jobs canister (src/src/index.ts and its reworked   *)
(* copy src/unnamed/part_000): a StableBTreeMap of Job records keyed by    *)
(* id, with one action per canister method that the checked properties    *)
(* are about.  The two files differ in searchJobs only: searchJobs is the  *)
(* one of index.ts, searchJobsLower the one of part_000.                   *)
(*                                                                         *)
(* last records the call just made and what it returned; applied, deleted  *)
(* and calls are history: who called applyJob on which id without a        *)
(* cancelAppliedJob since, which existing ids deleteJob was called on, and *)
(* how many update calls were made.                                        *)
(*                                                                         *)
(* Text that searchJobs looks at is a sequence of one-character strings,   *)
(* so that toLowerCase and includes are computed, not assumed.  Other text *)
(* (caller identities, e-mails, names) is an opaque string.                *)
(* Opt<nat64> is <<>> for None and <<t>> for Some(t); Array.filter is      *)
(* SelectSeq.                                                              *)
(***************************************************************************)
EXTENDS Integers, Sequences, FiniteSets, TLC

VARIABLES jobStorage, time, last, applied, deleted, calls

vars == <<jobStorage, time, last, applied, deleted, calls>>

(* ------------------------------ bounds --------------------------------- *)

\* number of distinct values uuidv4() can return in the model
MaxIds == 2
\* largest value of ic.time(); the handlers only store the time, they never
\* compare or compute with it
MaxTime == 0
\* number of update calls in one behaviour
MaxCalls == 4

(* ------------------------------ inputs --------------------------------- *)

Callers == {"alice", "bob"}

Ids == 1..MaxIds

Engineer == <<"E", "n", "g", "i", "n", "e", "e", "r">>

Positions == {Engineer, <<"d", "e", "v">>}

Emails == {"a@x.com"}

Names == {"Bob"}

JobPayloads == [position : Positions, email : Emails]

ApplicantPayloads == [name : Names, email : Emails]

Keywords == {<<>>, <<"e", "n", "g">>, <<"E", "n", "g">>, <<"E", "N", "G">>,
             <<"d", "e", "v">>, <<"n", "e", "e", "r">>, <<"x">>}

(* --------------------------- text functions ---------------------------- *)

Upper == <<"A","B","C","D","E","F","G","H","I","J","K","L","M",
           "N","O","P","Q","R","S","T","U","V","W","X","Y","Z">>

Lower == <<"a","b","c","d","e","f","g","h","i","j","k","l","m",
           "n","o","p","q","r","s","t","u","v","w","x","y","z">>

\* the lower-case letter of each upper-case letter
lowerOf ==
    [c \in {Upper[i] : i \in 1..Len(Upper)} |->
        Lower[CHOOSE i \in 1..Len(Upper) : Upper[i] = c]]

\* String.prototype.toLowerCase on one character
lowerChar(c) == IF c \in DOMAIN lowerOf THEN lowerOf[c] ELSE c

\* String.prototype.toLowerCase
toLowerCase(s) == [i \in 1..Len(s) |-> lowerChar(s[i])]

\* String.prototype.includes: k occurs in s as a contiguous run
includes(s, k) ==
    \E i \in 0..(Len(s) - Len(k)) : SubSeq(s, i + 1, i + Len(k)) = k

(* ----------------------------- the store ------------------------------- *)

\* StableBTreeMap.get: Some(job) iff the key is present
has(id) == id \in DOMAIN jobStorage

\* StableBTreeMap.insert: adds the key or overwrites its value
insert(store, id, job) ==
    [k \in (DOMAIN store) \cup {id} |-> IF k = id THEN job ELSE store[k]]

\* StableBTreeMap.remove: the map without the key
remove(store, id) == [k \in (DOMAIN store) \ {id} |-> store[k]]

RECURSIVE valuesFrom(_, _)
valuesFrom(store, k) ==
    IF k > MaxIds THEN <<>>
    ELSE IF k \in DOMAIN store
         THEN <<store[k]>> \o valuesFrom(store, k + 1)
         ELSE valuesFrom(store, k + 1)

\* StableBTreeMap.values: the records in ascending key order
values(store) == valuesFrom(store, 1)

\* variant: only the first applicant is compared with the caller
isAppliedFirst(applicants, caller) ==
    Len(applicants) > 0 /\ applicants[1].owner = caller

\* applicants.findIndex(owner === caller) > -1, applicants.some(owner === caller)
isApplied(applicants, caller) ==
    \E i \in 1..Len(applicants) : applicants[i].owner = caller

\* variant: the publisher is compared with itself instead of the caller
isPublisherSelf(job, caller) == job.publisher = job.publisher

\* job.publisher.toString() === ic.caller().toString()
isPublisher(job, caller) == job.publisher = caller

\* { ...job, applicants, updatedAt: Opt.Some(ic.time()) } after the push
pushApplicant(job, applicant, now) ==
    [job EXCEPT !.applicants = Append(job.applicants, applicant),
                !.updatedAt = <<now>>]

\* variant: the first applicant is dropped, whoever it is
updatedApplicantsShift(applicants, caller) == Tail(applicants)

\* variant: the filter keeps the caller instead of the others
updatedApplicantsKept(applicants, caller) ==
    LET same(applicant) == applicant.owner = caller
    IN SelectSeq(applicants, same)

\* applicants.filter(owner !== caller)
updatedApplicants(applicants, caller) ==
    LET other(applicant) == applicant.owner # caller
    IN SelectSeq(applicants, other)

\* variant: the payload's e-mail also lands in publisher
mergePayloadPublisher(job, payload, now) ==
    [job EXCEPT !.position = payload.position,
                !.email = payload.email,
                !.publisher = payload.email,
                !.updatedAt = <<now>>]

\* { ...job, ...payload, updatedAt: Opt.Some(ic.time()) }
mergePayload(job, payload, now) ==
    [job EXCEPT !.position = payload.position,
                !.email = payload.email,
                !.updatedAt = <<now>>]

(* ----------------------------- results --------------------------------- *)

\* what a call was given and returned: input is its keyword (<<>> if none),
\* res is "Ok" or the kind of error, ret the returned Job(s); before is the
\* applicant list that a successful applyJob, or the cancelAppliedJob right
\* after it, started from (<<>> otherwise)
Result(op, caller, id, input, res, ret, before) ==
    [op |-> op, caller |-> caller, id |-> id, input |-> input, res |-> res,
     ret |-> ret, before |-> before, follows |-> FALSE]

\* the call being made is the same caller's next call after a successful
\* applyJob on the same job
followsApply(caller, id) ==
    /\ last.op = "applyJob"
    /\ last.res = "Ok"
    /\ last.caller = caller
    /\ last.id = id

Init ==
    /\ jobStorage = <<>>
    /\ time = 0
    /\ last = Result("init", "", 0, <<>>, "Ok", <<>>, <<>>)
    /\ applied = {}
    /\ deleted = {}
    /\ calls = 0

(* ----------------------------- queries --------------------------------- *)

query == UNCHANGED <<jobStorage, time, applied, deleted, calls>>

\* src/src/index.ts: the keyword is compared as it is
isMatched(job, keyword) ==
    \/ includes(job.position, keyword)
    \/ includes(job.skill, keyword)
    \/ includes(job.companyName, keyword)
    \/ includes(job.location, keyword)
    \/ includes(job.description, keyword)

\* src/unnamed/part_000: both sides are lower-cased first
isMatchedLower(job, keyword) ==
    \/ includes(toLowerCase(job.position), toLowerCase(keyword))
    \/ includes(toLowerCase(job.skill), toLowerCase(keyword))
    \/ includes(toLowerCase(job.companyName), toLowerCase(keyword))
    \/ includes(toLowerCase(job.location), toLowerCase(keyword))
    \/ includes(toLowerCase(job.description), toLowerCase(keyword))

searchJobs ==
    \E keyword \in Keywords :
        LET keep(job) == isMatched(job, keyword)
        IN /\ last' = Result("searchJobs", "", 0, keyword, "Ok",
                             SelectSeq(values(jobStorage), keep), <<>>)
           /\ query

searchJobsLower ==
    \E keyword \in Keywords :
        LET keep(job) == isMatchedLower(job, keyword)
        IN /\ last' = Result("searchJobsLower", "", 0, keyword, "Ok",
                             SelectSeq(values(jobStorage), keep), <<>>)
           /\ query

getJob ==
    \E id \in Ids :
        /\ last' = IF has(id)
                   THEN Result("getJob", "", id, <<>>, "Ok",
                               <<jobStorage[id]>>, <<>>)
                   ELSE Result("getJob", "", id, <<>>, "NotFound", <<>>, <<>>)
        /\ query

(* ----------------------------- updates --------------------------------- *)

\* an update call runs at some ic.time() not before the previous one
update(now) ==
    /\ calls < MaxCalls
    /\ calls' = calls + 1
    /\ now \in time..MaxTime
    /\ time' = now

createJob(id, caller, payload, now) ==
    [id |-> id,
     position |-> payload.position,
     email |-> payload.email,
     skill |-> <<>>,
     publisher |-> caller,
     applicants |-> <<>>,
     companyName |-> <<>>,
     companyUrl |-> "",
     description |-> <<>>,
     salary |-> "",
     location |-> <<>>,
     createdAt |-> now,
     updatedAt |-> <<>>]

\* uuidv4() over getRandomValues: some id, whatever the store holds
uuidv4 == Ids

publishJob ==
    \E caller \in Callers, payload \in JobPayloads, now \in 0..MaxTime,
       id \in uuidv4 :
        LET job == createJob(id, caller, payload, now)
        IN /\ update(now)
           /\ jobStorage' = insert(jobStorage, job.id, job)
           /\ last' = Result("publishJob", caller, job.id, <<>>, "Ok",
                             <<job>>, <<>>)
           /\ UNCHANGED <<applied, deleted>>

applyJob ==
    \E caller \in Callers, id \in Ids, applicantPayload \in ApplicantPayloads,
       now \in 0..MaxTime :
        /\ update(now)
        /\ IF ~has(id)
           THEN /\ last' = Result("applyJob", caller, id, <<>>, "NotFound",
                                  <<>>, <<>>)
                /\ UNCHANGED <<jobStorage, applied>>
           ELSE LET job == jobStorage[id]
                    applicant == [owner |-> caller,
                                  name |-> applicantPayload.name,
                                  email |-> applicantPayload.email,
                                  applyAt |-> now]
                    updatedJob == pushApplicant(job, applicant, now)
                IN IF Len(job.applicants) > 0
                      /\ isApplied(job.applicants, caller)
                   THEN /\ last' = Result("applyJob", caller, id, <<>>,
                                          "AlreadyApplied", <<>>, <<>>)
                        /\ applied' = applied \cup {<<caller, id>>}
                        /\ UNCHANGED jobStorage
                   ELSE /\ jobStorage' = insert(jobStorage, job.id, updatedJob)
                        /\ last' = Result("applyJob", caller, id, <<>>, "Ok",
                                          <<updatedJob>>, job.applicants)
                        /\ applied' = applied \cup {<<caller, id>>}
        /\ UNCHANGED deleted

cancelAppliedJob ==
    \E caller \in Callers, id \in Ids, now \in 0..MaxTime :
        /\ update(now)
        /\ applied' = applied \ {<<caller, id>>}
        /\ IF ~has(id)
           THEN /\ last' = Result("cancelAppliedJob", caller, id, <<>>,
                                  "NotFound", <<>>, <<>>)
                /\ UNCHANGED jobStorage
           ELSE LET job == jobStorage[id]
                    updatedJob ==
                        [job EXCEPT !.applicants =
                                        updatedApplicants(job.applicants, caller),
                                    !.updatedAt = <<now>>]
                IN IF Len(job.applicants) = 0
                      \/ ~isApplied(job.applicants, caller)
                   THEN /\ last' = Result("cancelAppliedJob", caller, id, <<>>,
                                          "NotApplied", <<>>, <<>>)
                        /\ UNCHANGED jobStorage
                   ELSE /\ jobStorage' = insert(jobStorage, job.id, updatedJob)
                        /\ last' = [Result("cancelAppliedJob", caller, id,
                                           <<>>, "Ok", <<updatedJob>>,
                                           IF followsApply(caller, id)
                                           THEN last.before ELSE <<>>)
                                    EXCEPT !.follows = followsApply(caller, id)]
        /\ UNCHANGED deleted

updateJob ==
    \E caller \in Callers, id \in Ids, payload \in JobPayloads,
       now \in 0..MaxTime :
        /\ update(now)
        /\ IF ~has(id)
           THEN /\ last' = Result("updateJob", caller, id, <<>>, "NotFound",
                                  <<>>, <<>>)
                /\ UNCHANGED jobStorage
           ELSE LET job == jobStorage[id]
                    updatedJob == mergePayload(job, payload, now)
                IN IF ~isPublisher(job, caller)
                   THEN /\ last' = Result("updateJob", caller, id, <<>>,
                                          "NotPublisher", <<>>, <<>>)
                        /\ UNCHANGED jobStorage
                   ELSE /\ jobStorage' = insert(jobStorage, job.id, updatedJob)
                        /\ last' = Result("updateJob", caller, id, <<>>, "Ok",
                                          <<updatedJob>>, <<>>)
        /\ UNCHANGED <<applied, deleted>>

deleteJob ==
    \E caller \in Callers, id \in Ids, now \in 0..MaxTime :
        /\ update(now)
        /\ jobStorage' = remove(jobStorage, id)
        /\ IF ~has(id)
           THEN /\ last' = Result("deleteJob", caller, id, <<>>, "NotFound",
                                  <<>>, <<>>)
                /\ UNCHANGED deleted
           ELSE LET deletedJob == jobStorage[id]
                IN /\ deleted' = deleted \cup {id}
                   /\ last' = IF ~isPublisher(deletedJob, caller)
                              THEN Result("deleteJob", caller, id, <<>>,
                                          "NotPublisher", <<>>, <<>>)
                              ELSE Result("deleteJob", caller, id, <<>>, "Ok",
                                          <<deletedJob>>, <<>>)
        /\ UNCHANGED applied

\* the calls that change the store
Next ==
    \/ publishJob
    \/ applyJob
    \/ cancelAppliedJob
    \/ updateJob
    \/ deleteJob

Spec == Init /\ [][Next]_vars

\* the queries, over the stores that publishJob, updateJob and deleteJob
\* build (applicants play no part in what a query returns)
NextQuery ==
    \/ getJob
    \/ searchJobs
    \/ searchJobsLower
    \/ publishJob
    \/ updateJob
    \/ deleteJob

SpecQuery == Init /\ [][NextQuery]_vars

\* identities that have applied: the callers and one more principal
Owners == Callers \cup {"carol"}

\* the applicant lists applyJob can have built: each owner at most once
ApplicantLists ==
    LET lists == UNION {[1..n -> Owners] : n \in 0..Cardinality(Owners)}
        applicantOf(owner) ==
            [owner |-> owner, name |-> "Bob", email |-> "a@x.com",
             applyAt |-> 0]
    IN {[i \in 1..Len(l) |-> applicantOf(l[i])] :
          l \in {m \in lists : \A i, j \in 1..Len(m) : m[i] = m[j] => i = j}}

\* the store after publishJob and then applyJob by some of Owners in some
\* order, all at time 0
InitApplied ==
    /\ \E caller \in Callers, payload \in JobPayloads,
          applicants \in ApplicantLists :
          LET job == createJob(1, caller, payload, 0)
          IN /\ jobStorage =
                   insert(<<>>, job.id,
                          [job EXCEPT !.applicants = applicants,
                                      !.updatedAt = IF applicants = <<>>
                                                    THEN <<>> ELSE <<0>>])
             /\ applied = {<<applicants[i].owner, job.id>> :
                             i \in 1..Len(applicants)}
    /\ time = 0
    /\ last = Result("init", "", 0, <<>>, "Ok", <<>>, <<>>)
    /\ deleted = {}
    /\ calls = 0

\* the calls that change a Job that stays in the store
NextApplied ==
    \/ applyJob
    \/ cancelAppliedJob
    \/ updateJob

SpecApplied == InitApplied /\ [][NextApplied]_vars

(* ------------------------------ claims --------------------------------- *)

\* a step that is an update call (queries leave calls alone)
\* is recognised in the formulas below by calls' = calls + 1, and the call
\* it made by last'.

\* C1: only the publisher can delete a job: deleteJob by any other caller
\* returns NotPublisher and the job stays in the collection as it was, and a
\* job leaves the collection only through a deleteJob by its publisher.
C1_OnlyPublisherDeletes ==
    [][/\ (/\ calls' = calls + 1
           /\ last'.op = "deleteJob"
           /\ last'.id \in DOMAIN jobStorage
           /\ jobStorage[last'.id].publisher # last'.caller)
          => /\ last'.res = "NotPublisher"
             /\ last'.id \in DOMAIN jobStorage'
             /\ jobStorage'[last'.id] = jobStorage[last'.id]
       /\ \A id \in (DOMAIN jobStorage) \ (DOMAIN jobStorage') :
             /\ last'.op = "deleteJob"
             /\ last'.id = id
             /\ last'.caller = jobStorage[id].publisher]_vars

\* C2: a call that returns an error leaves the whole collection as it was:
\* the same ids and every Job equal field for field.
C2_ErrorLeavesCollection ==
    [][last'.res # "Ok" => jobStorage' = jobStorage]_vars

\* C3: in every reachable state each Job's applicant list holds a given
\* owner at most once.
C3_OwnerAtMostOnce ==
    \A id \in DOMAIN jobStorage :
        \A i, j \in 1..Len(jobStorage[id].applicants) :
            jobStorage[id].applicants[i].owner
                = jobStorage[id].applicants[j].owner => i = j

\* C3 witness: a second applyJob by an owner was refused on a job that has
\* two applicants.
C3_Witness ==
    /\ last.op = "applyJob"
    /\ last.res = "AlreadyApplied"
    /\ last.id \in DOMAIN jobStorage
    /\ Len(jobStorage[last.id].applicants) >= 2

\* C4: updateJob on an existing job by a caller other than its publisher
\* returns NotPublisher and leaves the Job unchanged in every field.
C4_UpdateByOtherRefused ==
    [][(/\ calls' = calls + 1
        /\ last'.op = "updateJob"
        /\ last'.id \in DOMAIN jobStorage
        /\ jobStorage[last'.id].publisher # last'.caller)
       => /\ last'.res = "NotPublisher"
          /\ last'.id \in DOMAIN jobStorage'
          /\ jobStorage'[last'.id] = jobStorage[last'.id]]_vars

\* C4 witness: updateJob by a non-publisher was refused on a job that has an
\* applicant and an updatedAt.
C4_Witness ==
    /\ last.op = "updateJob"
    /\ last.res = "NotPublisher"
    /\ last.id \in DOMAIN jobStorage
    /\ jobStorage[last.id].publisher # last.caller
    /\ jobStorage[last.id].applicants # <<>>
    /\ jobStorage[last.id].updatedAt # <<>>

C6_ApplyCancelRoundTrip ==
    [][(/\ calls' = calls + 1
        /\ last'.op = "cancelAppliedJob"
        /\ last.op = "applyJob"
        /\ last.res = "Ok"
        /\ last'.caller = last.caller
        /\ last'.id = last.id)
       => /\ last'.res = "Ok"
          /\ last'.id \in DOMAIN jobStorage'
          /\ jobStorage'[last'.id].applicants = last.before]_vars

\* C6 witness: the round trip was made on a job that had another applicant.
C6_Witness ==
    /\ last.op = "cancelAppliedJob"
    /\ last.follows
    /\ last.before # <<>>

\* C7: while a Job is in the collection its id and publisher stay what the
\* publishJob call that created it set, no two Jobs share an id, and each Job
\* is stored under the key equal to its id.
C7_IdAndPublisherFixed ==
    [][\A id \in DOMAIN jobStorage' :
          /\ jobStorage'[id].id = id
          /\ (id \in DOMAIN jobStorage
                 /\ ~(last'.op = "publishJob" /\ last'.id = id))
             => /\ jobStorage'[id].id = jobStorage[id].id
                /\ jobStorage'[id].publisher = jobStorage[id].publisher]_vars

\* C7 witness: a job that has an applicant was updated by its publisher.
C7_Witness ==
    /\ last.op = "updateJob"
    /\ last.res = "Ok"
    /\ last.id \in DOMAIN jobStorage
    /\ jobStorage[last.id].applicants # <<>>

C10_SearchIgnoresCase ==
    LET sameLetter(a, b) == lowerChar(a) = lowerChar(b)
        within(k, s) ==
            \E i \in 0..(Len(s) - Len(k)) :
                \A j \in 1..Len(k) : sameLetter(s[i + j], k[j])
        matches(job, k) ==
            \/ within(k, job.position)
            \/ within(k, job.skill)
            \/ within(k, job.companyName)
            \/ within(k, job.location)
            \/ within(k, job.description)
        returned == {last.ret[i] : i \in 1..Len(last.ret)}
    IN last.op = "searchJobs"
        => returned = {jobStorage[id] : id \in
                         {k \in DOMAIN jobStorage :
                            matches(jobStorage[k], last.input)}}

\* C11: cancelAppliedJob on an existing job fails with NotApplied exactly
\* when the caller is no owner in the applicant list, and then changes
\* nothing; otherwise it succeeds and takes the caller's Applicant out of the
\* list, every other Applicant staying as it was and in the same order, and
\* no field of the Job other than applicants and updatedAt, and no other
\* Job, changes.
C11_CancelRemovesOnlyCaller ==
    [][(/\ calls' = calls + 1
        /\ last'.op = "cancelAppliedJob"
        /\ last'.id \in DOMAIN jobStorage)
       => LET id == last'.id
              old == jobStorage[id].applicants
              at == {i \in 1..Len(old) : old[i].owner = last'.caller}
          IN IF at = {}
             THEN last'.res = "NotApplied" /\ jobStorage' = jobStorage
             ELSE /\ last'.res = "Ok"
                  /\ DOMAIN jobStorage' = DOMAIN jobStorage
                  /\ \A k \in (DOMAIN jobStorage) \ {id} :
                        jobStorage'[k] = jobStorage[k]
                  /\ \E i \in at :
                        jobStorage'[id].applicants
                            = SubSeq(old, 1, i - 1) \o SubSeq(old, i + 1, Len(old))
                  /\ [jobStorage'[id] EXCEPT
                         !.applicants = old,
                         !.updatedAt = jobStorage[id].updatedAt]
                        = jobStorage[id]]_vars

\* C11 witness: an owner of a list of three cancelled, and the two others
\* are left.
C11_Witness ==
    /\ calls = 1
    /\ last.op = "cancelAppliedJob"
    /\ last.res = "Ok"
    /\ last.id \in DOMAIN jobStorage
    /\ Len(jobStorage[last.id].applicants) = 2
    /\ \A i \in 1..2 : jobStorage[last.id].applicants[i].owner # last.caller

====
